---- MODULE Spec2Model ----
(***************************************************************************)
(* A model of cog's local image builder (pkg/docker/local_builder.go) and  *)
(* local docker serving platform (LocalDockerPlatform).                    *)
(*                                                                         *)
(* Strings are sequences of one-character strings, so that the string      *)
(* functions of the code (HasPrefix, Contains, SplitN, TrimPrefix,         *)
(* TrimSpace, the buildkit regular expression) are computed, not assumed.  *)
(***************************************************************************)
EXTENDS Integers, Sequences, FiniteSets, TLC

(***************************************************************************)
(* Bounds of the model.                                                    *)
(***************************************************************************)
\* the longest output stream a build process writes
MaxLines == 3
\* the number of lines the pipe between the build process and the scanner holds
PipeCap == 2
\* global.StartupTimeout, in units of the 100 ms poll interval
StartupTimeout == 3
\* the longest extra delay, in poll intervals, of one sleep, inspect or ping
MaxDelay == 1

(***************************************************************************)
(* String constants of the code.                                           *)
(***************************************************************************)
successPrefix == <<"S","u","c","c","e","s","s","f","u","l","l","y"," ","b","u","i","l","t"," ">>

RunPrefix == <<"R","U","N"," ">>

SectionPrefix == <<"_","_","s","e","c","t","i","o","n","_","_"," ">>

SectionStartingBuild == <<"s","t","a","r","t","i","n","g"," ","b","u","i","l","d">>

sectionPrefix == RunPrefix \o SectionPrefix

WritingImage == <<" ","w","r","i","t","i","n","g"," ","i","m","a","g","e"," ","s","h","a","2","5","6",":">>

SectionFmt == <<" "," ","*"," ">>

Digits == {"0","1","2","3","4","5","6","7","8","9"}

HexDigits == Digits \cup {"a","b","c","d","e","f"}

\* unicode.IsSpace on the characters a log line can hold
WhiteSpace == {" ", "\t", "\r", "\n", "\f"}

(***************************************************************************)
(* The package strings, on sequences of characters.                        *)
(***************************************************************************)
HasPrefix(s, p) == Len(s) >= Len(p) /\ SubSeq(s, 1, Len(p)) = p

\* strings.Index: the first position (1-based) at which sub occurs in s, 0 if none
Index(s, sub) ==
    LET hits == {i \in 1..(Len(s) - Len(sub) + 1) : SubSeq(s, i, i + Len(sub) - 1) = sub}
    IN  IF hits = {} THEN 0 ELSE CHOOSE i \in hits : \A j \in hits : i <= j

Contains(s, sub) == Index(s, sub) # 0

TrimPrefix(s, p) == IF HasPrefix(s, p) THEN SubSeq(s, Len(p) + 1, Len(s)) ELSE s

RECURSIVE TrimLeft(_)
TrimLeft(s) == IF s # <<>> /\ Head(s) \in WhiteSpace THEN TrimLeft(Tail(s)) ELSE s

RECURSIVE TrimRight(_)
TrimRight(s) ==
    IF s # <<>> /\ s[Len(s)] \in WhiteSpace THEN TrimRight(SubSeq(s, 1, Len(s) - 1)) ELSE s

TrimSpace(s) == TrimRight(TrimLeft(s))

\* strings.SplitN(s, sep, 2)[1] for an s that contains sep: what follows the first sep
SplitAfter(s, sep) == SubSeq(s, Index(s, sep) + Len(sep), Len(s))

(***************************************************************************)
(* buildkitRegex: ^#[0-9]+ writing image sha256:([0-9a-f]{12}).+$          *)
(***************************************************************************)
RECURSIVE DigitRun(_, _)
DigitRun(s, i) == IF i <= Len(s) /\ s[i] \in Digits THEN 1 + DigitRun(s, i + 1) ELSE 0

\* regexp.FindStringSubmatch: <<whole match, first group>>, or <<>> (nil)
FindStringSubmatch(s) ==
    LET n == DigitRun(s, 2)
        w == 2 + n
        h == w + Len(WritingImage)
    IN  IF /\ Len(s) >= 1
           /\ s[1] = "#"
           /\ n >= 1
           /\ Len(s) >= h + 12
           /\ SubSeq(s, w, h - 1) = WritingImage
           /\ \A k \in h..(h + 11) : s[k] \in HexDigits
        THEN <<s, SubSeq(s, h, h + 11)>>
        ELSE <<>>

(***************************************************************************)
(* The lines a build process may write.                                    *)
(***************************************************************************)
LinePlain == <<"l","o","g","1">>

LineSection == <<"R","U","N"," ","_","_","s","e","c","t","i","o","n","_","_"," ","i","n","s","t","a","l","l">>

LineStepSection == <<"S","t","e","p"," ","2","/","3"," ",":"," ","R","U","N"," ","_","_","s","e","c","t","i","o","n","_","_"," ","t","e","s","t">>

LineLegacy == <<"S","u","c","c","e","s","s","f","u","l","l","y"," ","b","u","i","l","t"," ","a","b","c","1","2","3">>

LinePip == <<"S","u","c","c","e","s","s","f","u","l","l","y"," ","b","u","i","l","t"," "," ","p","k","g"," ","\t">>

LineBuildkit == <<"#","5"," ","w","r","i","t","i","n","g"," ","i","m","a","g","e"," ","s","h","a","2","5","6",":","0","1","2","3","4","5","6","7","8","9","a","b","c","d","e","f"," ","d","o","n","e">>

LineLegacySection == <<"S","u","c","c","e","s","s","f","u","l","l","y"," ","b","u","i","l","t"," ","R","U","N"," ","_","_","s","e","c","t","i","o","n","_","_"," ","x">>

Lines == {LinePlain, LineSection, LineStepSection, LineLegacy, LinePip, LineBuildkit,
          LineLegacySection}

RECURSIVE SeqsUpTo(_, _)
SeqsUpTo(S, n) ==
    IF n = 0 THEN {<<>>}
    ELSE LET shorter == SeqsUpTo(S, n - 1)
         IN  shorter \cup {Append(s, x) : s \in shorter, x \in S}

Streams == SeqsUpTo(Lines, MaxLines)

(***************************************************************************)
(* State.                                                                  *)
(***************************************************************************)
VARIABLES
    \* LocalImageBuilder.build and the docker build process it runs
    buildPc,          \* where build() is: idle, buildPipe, start, wait, recvLogs, logLines, recvTag, done
    buildRet,         \* what build() returned: [tag, err]
    lastLogs,         \* build()'s lastLogs, once received
    stream,           \* the lines the build process writes before it exits
    nWritten,         \* how many of them it has written
    procState,        \* notStarted, running, exitedOk, exitedFail
    pipe,             \* the lines in the stdout pipe, written and not yet read
    writeClosed,      \* the write end of the pipe is closed
    readClosed,       \* the read end of the pipe is closed (by exec.Cmd on Start failure or in Wait)
    \* the goroutine of buildPipe
    scanPc,           \* notStarted, scan, sendTagLegacy, sendTagBuildkit, sendLogs, done
    scanBuf,          \* lines the bufio.Scanner has read and not yet returned
    line,             \* scanner.Text() of the iteration under way
    currentSection,
    currentLogLines,
    tagOut,           \* the value of the tagChan send under way
    tagSends,         \* the number of tagChan sends the goroutine has begun
    log,              \* what logWriter received, in order: [lvl, msg]
    \* LocalDockerPlatform.Deploy and the container it starts
    deployPc,         \* where Deploy is: idle, artifact, image, port, create, startContainer, poll, done
    deployRet,        \* what Deploy returned: [deployment, port, err]
    hostPort,         \* the port shell.NextFreePort gave, 0 before
    contStatus,       \* the container's State.Status: none, created, running, exited, dead
    contFinishedAt,   \* the time at which the container exited, -1 before
    clock,            \* the time, in poll intervals
    \* waitForContainerReady
    pollPc,           \* idle, check, sleep, inspect, ping, returned
    pollErr,          \* what it returned: none, nil, timeout, inspect, exited
    start,            \* time.Now() of line 128
    now,              \* time.Now() of line 131
    dlog,             \* what Deploy's logWriter received, in order
    \* LocalDockerDeployment.RunInference and Help
    srvPc,            \* idle, fields, encode, do, response, helpGet, helpDecode, done
    example,          \* input.Values: field name -> "file" or "string"
    todo,             \* the fields the range loop has not reached yet
    openFiles,        \* the files os.Open has opened and nothing has closed
    openedFiles,      \* the files os.Open has opened
    bodyOpen,         \* resp.Body is open
    resp,             \* the response: [status, setup, run, ctype]
    srvRet,           \* what the call returned: [err, setupTime, runTime, mimeType]
    slog,             \* what the call's logWriter received, in order
    \* NewExample and NewExampleWithBaseDir
    exPc,             \* idle, new, newWithBaseDir, done
    keyVals,          \* the argument keyVals: key -> string
    baseDir,          \* the argument baseDir
    exValues,         \* Example.Values of the result: key -> [String, File]
    \* NewLocalImageBuilder and BuildAndPush
    bapPc,            \* idle, new, call, build, tag, push, done, panic, fatal
    registryArg,      \* the argument of NewLocalImageBuilder
    registry,         \* LocalImageBuilder.registry
    fullImageTag,     \* the named result fullImageTag, as assigned at line 35
    bapSteps,         \* the steps that have ended, in order: [step, ok]
    bapRet,           \* what BuildAndPush returned: [fullImageTag, err]
    \* Deploy, continued
    binding,          \* hostBinding.HostPort, as given to ContainerCreate; 0: none yet
    url,              \* the port in the url of waitForContainerReady; 0: none yet
    lastPing          \* the result of the last http.Get(url): none, err, non200, ok

buildVars == <<buildPc, buildRet, lastLogs, stream, nWritten, procState, pipe, writeClosed,
               readClosed, scanPc, scanBuf, line, currentSection, currentLogLines, tagOut,
               tagSends, log>>

deployVars == <<deployPc, deployRet, hostPort, contStatus, contFinishedAt, clock, pollPc,
                pollErr, start, now, dlog, binding, url, lastPing>>

servingVars == <<srvPc, example, todo, openFiles, openedFiles, bodyOpen, resp, srvRet, slog>>

exampleVars == <<exPc, keyVals, baseDir, exValues>>

publishVars == <<bapPc, registryArg, registry, fullImageTag, bapSteps, bapRet>>

vars == <<buildVars, deployVars, servingVars, exampleVars, publishVars>>

Debug(msg) == [lvl |-> "debug", msg |-> msg]

Info(msg) == [lvl |-> "info", msg |-> msg]

InfoAll(msgs) == [i \in 1..Len(msgs) |-> Info(msgs[i])]

(***************************************************************************)
(* buildPipe's goroutine.                                                  *)
(***************************************************************************)
IsSectionLine(l) == Contains(l, sectionPrefix)

IsLegacySuccess(l) == HasPrefix(l, successPrefix)

LegacyTagUntrimmed(l) == TrimPrefix(l, successPrefix)

LegacyTag(l) == TrimSpace(TrimPrefix(l, successPrefix))

IsBuildkitSuccess(l) == Len(FindStringSubmatch(l)) = 2

BuildkitTag(l) == FindStringSubmatch(l)[2]

\* lines 148-154: the section and the trailing log window after line l
NextSection(section, l) == IF IsSectionLine(l) THEN SplitAfter(l, sectionPrefix) ELSE section

NextLogLinesKept(logLines, l) == IF IsSectionLine(l) THEN logLines ELSE Append(logLines, l)

NextLogLines(logLines, l) == IF IsSectionLine(l) THEN <<>> ELSE Append(logLines, l)

\* lines 146-154: what the iteration logs
LineLog(l) ==
    IF IsSectionLine(l)
    THEN <<Debug(l), Info(SectionFmt \o SplitAfter(l, sectionPrefix))>>
    ELSE <<Debug(l)>>

\* lines 158-162 for line l: the buildkit send, or the next iteration
AfterLegacy(l) == IF IsBuildkitSuccess(l) THEN "sendTagBuildkit" ELSE "scan"

\* lines 155-162 for line l: the first send of the iteration, or the next iteration
AfterSection(l) == IF IsLegacySuccess(l) THEN "sendTagLegacy" ELSE AfterLegacy(l)

\* the bufio.Scanner reads what the pipe holds
ScanRead ==
    /\ scanPc = "scan"
    /\ scanBuf = <<>>
    /\ ~readClosed
    /\ pipe # <<>>
    /\ scanBuf' = pipe
    /\ pipe' = <<>>
    /\ UNCHANGED <<deployVars, servingVars, exampleVars, publishVars>>
    /\ UNCHANGED <<buildPc, buildRet, lastLogs, stream, nWritten, procState, writeClosed,
                   readClosed, scanPc, line, currentSection, currentLogLines, tagOut,
                   tagSends, log>>

\* one iteration of the loop, lines 144-162, up to the first channel send
ScanLine ==
    /\ scanPc = "scan"
    /\ scanBuf # <<>>
    /\ LET l == Head(scanBuf)
           pc == AfterSection(l)
       IN  /\ line' = l
           /\ scanBuf' = Tail(scanBuf)
           /\ log' = log \o LineLog(l)
           /\ currentSection' = NextSection(currentSection, l)
           /\ currentLogLines' = NextLogLines(currentLogLines, l)
           /\ scanPc' = pc
           /\ tagOut' = IF pc = "sendTagLegacy" THEN LegacyTag(l)
                        ELSE IF pc = "sendTagBuildkit" THEN BuildkitTag(l)
                        ELSE tagOut
           /\ tagSends' = IF pc = "scan" THEN tagSends ELSE tagSends + 1
    /\ UNCHANGED <<deployVars, servingVars, exampleVars, publishVars>>
    /\ UNCHANGED <<buildPc, buildRet, lastLogs, stream, nWritten, procState, pipe,
                   writeClosed, readClosed>>

\* scanner.Scan() returns false: end of input, or a read from the closed read end
ScanEnd ==
    /\ scanPc = "scan"
    /\ scanBuf = <<>>
    /\ readClosed \/ (writeClosed /\ pipe = <<>>)
    /\ scanPc' = "sendLogs"
    /\ UNCHANGED <<deployVars, servingVars, exampleVars, publishVars>>
    /\ UNCHANGED <<buildPc, buildRet, lastLogs, stream, nWritten, procState, pipe,
                   writeClosed, readClosed, scanBuf, line, currentSection, currentLogLines,
                   tagOut, tagSends, log>>

(***************************************************************************)
(* The docker build process.                                               *)
(***************************************************************************)
\* the process writes its next line; the write blocks while the pipe is full
ProcWrite ==
    /\ procState = "running"
    /\ nWritten < Len(stream)
    /\ Len(pipe) < PipeCap
    /\ pipe' = Append(pipe, stream[nWritten + 1])
    /\ nWritten' = nWritten + 1
    /\ UNCHANGED <<deployVars, servingVars, exampleVars, publishVars>>
    /\ UNCHANGED <<buildPc, buildRet, lastLogs, stream, procState, writeClosed, readClosed,
                   scanPc, scanBuf, line, currentSection, currentLogLines, tagOut, tagSends,
                   log>>

\* the process has written its output and exits, cleanly or not
ProcExit ==
    /\ procState = "running"
    /\ nWritten = Len(stream)
    /\ \E ok \in BOOLEAN : procState' = IF ok THEN "exitedOk" ELSE "exitedFail"
    /\ writeClosed' = TRUE
    /\ UNCHANGED <<deployVars, servingVars, exampleVars, publishVars>>
    /\ UNCHANGED <<buildPc, buildRet, lastLogs, stream, nWritten, pipe, readClosed, scanPc,
                   scanBuf, line, currentSection, currentLogLines, tagOut, tagSends, log>>

(***************************************************************************)
(* LocalImageBuilder.build                                                 *)
(***************************************************************************)
NoTag == <<>>

\* line 60: buildPipe; pf() (cmd.StdoutPipe) may fail, else the goroutine starts
BuildPipe ==
    /\ buildPc = "buildPipe"
    /\ \E ok \in BOOLEAN :
          IF ok
          THEN /\ buildPc' = "start"
               /\ scanPc' = "scan"
               /\ buildRet' = buildRet
          ELSE /\ buildPc' = "done"
               /\ scanPc' = scanPc
               /\ buildRet' = [tag |-> NoTag, err |-> "pipe"]
    /\ UNCHANGED <<deployVars, servingVars, exampleVars, publishVars>>
    /\ UNCHANGED <<lastLogs, stream, nWritten, procState, pipe, writeClosed, readClosed,
                   scanBuf, line, currentSection, currentLogLines, tagOut, tagSends, log>>

\* line 65: cmd.Start; on failure exec.Cmd closes both ends of the pipe
CmdStart ==
    /\ buildPc = "start"
    /\ \E ok \in BOOLEAN :
          IF ok
          THEN /\ buildPc' = "wait"
               /\ procState' = "running"
               /\ UNCHANGED <<buildRet, writeClosed, readClosed>>
          ELSE /\ buildPc' = "done"
               /\ buildRet' = [tag |-> NoTag, err |-> "start"]
               /\ writeClosed' = TRUE
               /\ readClosed' = TRUE
               /\ procState' = procState
    /\ UNCHANGED <<deployVars, servingVars, exampleVars, publishVars>>
    /\ UNCHANGED <<lastLogs, stream, nWritten, pipe, scanPc, scanBuf, line, currentSection,
                   currentLogLines, tagOut, tagSends, log>>

\* line 69: cmd.Wait returns once the process has exited, and closes the read end
CmdWait ==
    /\ buildPc = "wait"
    /\ procState \in {"exitedOk", "exitedFail"}
    /\ readClosed' = TRUE
    /\ buildPc' = IF procState = "exitedFail" THEN "recvLogs" ELSE "recvTag"
    /\ UNCHANGED <<deployVars, servingVars, exampleVars, publishVars>>
    /\ UNCHANGED <<buildRet, lastLogs, stream, nWritten, procState, pipe, writeClosed, scanPc,
                   scanBuf, line, currentSection, currentLogLines, tagOut, tagSends, log>>

\* line 70 with line 163: the goroutine hands the trailing log window over and ends
RecvLastLogs ==
    /\ buildPc = "recvLogs"
    /\ scanPc = "sendLogs"
    /\ lastLogs' = currentLogLines
    /\ scanPc' = "done"
    /\ buildPc' = "logLines"
    /\ UNCHANGED <<deployVars, servingVars, exampleVars, publishVars>>
    /\ UNCHANGED <<buildRet, stream, nWritten, procState, pipe, writeClosed, readClosed,
                   scanBuf, line, currentSection, currentLogLines, tagOut, tagSends, log>>

\* lines 71-74: log the window, return the failure
LogLastLogs ==
    /\ buildPc = "logLines"
    /\ log' = log \o InfoAll(lastLogs)
    /\ buildPc' = "done"
    /\ buildRet' = [tag |-> NoTag, err |-> "exit"]
    /\ UNCHANGED <<deployVars, servingVars, exampleVars, publishVars>>
    /\ UNCHANGED <<lastLogs, stream, nWritten, procState, pipe, writeClosed, readClosed,
                   scanPc, scanBuf, line, currentSection, currentLogLines, tagOut, tagSends>>

\* lines 77-81 with line 156 or 160: build() takes the tag and returns it; the
\* goroutine goes on with lines 158-162
RecvTag ==
    /\ buildPc = "recvTag"
    /\ scanPc \in {"sendTagLegacy", "sendTagBuildkit"}
    /\ log' = Append(log, Info(successPrefix \o tagOut))
    /\ buildPc' = "done"
    /\ buildRet' = [tag |-> tagOut, err |-> "nil"]
    /\ LET pc == IF scanPc = "sendTagLegacy" THEN AfterLegacy(line) ELSE "scan"
       IN  /\ scanPc' = pc
           /\ tagOut' = IF pc = "sendTagBuildkit" THEN BuildkitTag(line) ELSE tagOut
           /\ tagSends' = IF pc = "sendTagBuildkit" THEN tagSends + 1 ELSE tagSends
    /\ UNCHANGED <<deployVars, servingVars, exampleVars, publishVars>>
    /\ UNCHANGED <<lastLogs, stream, nWritten, procState, pipe, writeClosed, readClosed,
                   scanBuf, line, currentSection, currentLogLines>>


(***************************************************************************)
(* The container and the time.                                             *)
(***************************************************************************)
\* shell.NextFreePort(5000): the first free port from 5000 on
BasePort == 5000

Ports == {BasePort, BasePort + 1}

Delays == 0..MaxDelay

\* the container stops by itself, at any time once it runs
ContainerExit ==
    /\ contStatus = "running"
    /\ \E st \in {"exited", "dead"} : contStatus' = st
    /\ contFinishedAt' = clock
    /\ UNCHANGED <<buildVars, servingVars, exampleVars, publishVars>>
    /\ UNCHANGED <<binding, url, lastPing>>
    /\ UNCHANGED <<deployPc, deployRet, hostPort, clock, pollPc, pollErr, start, now, dlog>>

(***************************************************************************)
(* LocalDockerPlatform.waitForContainerReady                               *)
(***************************************************************************)
\* line 132
TimedOutSinceZero(t, t0) == t > StartupTimeout

TimedOut(t, t0) == t - t0 > StartupTimeout

\* lines 131-134: read the time; past the deadline, return "Timed out"
PollCheck ==
    /\ pollPc = "check"
    /\ now' = clock
    /\ IF TimedOut(clock, start)
       THEN pollPc' = "returned" /\ pollErr' = "timeout"
       ELSE pollPc' = "sleep" /\ pollErr' = pollErr
    /\ UNCHANGED <<buildVars, servingVars, exampleVars, publishVars>>
    /\ UNCHANGED <<binding, url, lastPing>>
    /\ UNCHANGED <<deployPc, deployRet, hostPort, contStatus, contFinishedAt, clock, start,
                   dlog>>

\* line 136: time.Sleep(100 * time.Millisecond) takes one poll interval or longer
PollSleep ==
    /\ pollPc = "sleep"
    /\ \E d \in Delays : clock' = clock + 1 + d
    /\ pollPc' = "inspect"
    /\ UNCHANGED <<buildVars, servingVars, exampleVars, publishVars>>
    /\ UNCHANGED <<binding, url, lastPing>>
    /\ UNCHANGED <<deployPc, deployRet, hostPort, contStatus, contFinishedAt, pollErr, start,
                   now, dlog>>

\* lines 138-144: ContainerInspect fails, or reports no State, or reports the status
PollInspect ==
    /\ pollPc = "inspect"
    /\ \E d \in Delays : clock' = clock + d
    /\ \E res \in {"err", "nilState", "state"} :
          IF res = "err"
          THEN pollPc' = "returned" /\ pollErr' = "inspect"
          ELSE IF res = "state" /\ contStatus \in {"exited", "dead"}
          THEN pollPc' = "returned" /\ pollErr' = "exited"
          ELSE pollPc' = "ping" /\ pollErr' = pollErr
    /\ UNCHANGED <<buildVars, servingVars, exampleVars, publishVars>>
    /\ UNCHANGED <<binding, url, lastPing>>
    /\ UNCHANGED <<deployPc, deployRet, hostPort, contStatus, contFinishedAt, start, now,
                   dlog>>

\* what http.Get(url) may give: only a running container answers
PingResults == IF contStatus = "running" THEN {"err", "non200", "ok"} ELSE {"err"}

PingAnswered(res) == res # "err"

\* lines 147-152: err == nil and resp.StatusCode == http.StatusOK
PingOK(res) == res = "ok"

\* lines 146-154: a connection failure or another status continues the loop
PollPing ==
    /\ pollPc = "ping"
    /\ \E d \in Delays : clock' = clock + d
    /\ \E res \in PingResults :
          /\ lastPing' = res
          /\ IF PingOK(res)
             THEN /\ pollPc' = "returned"
                  /\ pollErr' = "nil"
                  /\ dlog' = Append(dlog, "gotPing")
             ELSE /\ pollPc' = "check"
                  /\ pollErr' = pollErr
                  /\ dlog' = dlog
    /\ UNCHANGED <<buildVars, servingVars, exampleVars, publishVars>>
    /\ UNCHANGED <<binding, url>>
    /\ UNCHANGED <<deployPc, deployRet, hostPort, contStatus, contFinishedAt, start, now>>

(***************************************************************************)
(* LocalDockerPlatform.Deploy                                              *)
(***************************************************************************)
NoDeployment == [deployment |-> FALSE, port |-> 0, err |-> "none"]

Failure(reason) == [deployment |-> FALSE, port |-> 0, err |-> reason]

DeploymentAtBasePort(port) == [deployment |-> TRUE, port |-> BasePort, err |-> "nil"]

\* lines 111-115 and 122: the LocalDockerDeployment, returned with a nil error
Deployment(port) == [deployment |-> TRUE, port |-> port, err |-> "nil"]

\* lines 280-287: the container's log, or the error of getting it, goes to the logger
WriteContainerLogs(l, ok) == Append(l, IF ok THEN "containerLogs" ELSE "logsError")

\* lines 53-59: mod.ArtifactFor(target)
DeployArtifact ==
    /\ deployPc = "artifact"
    /\ \E ok \in BOOLEAN :
          IF ok
          THEN deployPc' = "image" /\ dlog' = Append(dlog, "deploying") /\ deployRet' = deployRet
          ELSE deployPc' = "done" /\ dlog' = dlog /\ deployRet' = Failure("noTarget")
    /\ UNCHANGED <<buildVars, servingVars, exampleVars, publishVars>>
    /\ UNCHANGED <<binding, url, lastPing>>
    /\ UNCHANGED <<hostPort, contStatus, contFinishedAt, clock, pollPc, pollErr, start, now>>

\* lines 61-65: docker.Exists, else docker.Pull, which takes time
DeployImage ==
    /\ deployPc = "image"
    /\ \E d \in Delays : clock' = clock + d
    /\ \E exists \in BOOLEAN, pulled \in BOOLEAN :
          IF exists \/ pulled
          THEN deployPc' = "port" /\ deployRet' = deployRet
          ELSE deployPc' = "done" /\ deployRet' = Failure("pull")
    /\ UNCHANGED <<buildVars, servingVars, exampleVars, publishVars>>
    /\ UNCHANGED <<binding, url, lastPing>>
    /\ UNCHANGED <<hostPort, contStatus, contFinishedAt, pollPc, pollErr, start, now, dlog>>

\* lines 75-78: shell.NextFreePort
DeployPort ==
    /\ deployPc = "port"
    /\ \/ /\ \E p \in Ports : hostPort' = p
          /\ deployPc' = "create"
          /\ deployRet' = deployRet
       \/ /\ hostPort' = hostPort
          /\ deployPc' = "done"
          /\ deployRet' = Failure("port")
    /\ UNCHANGED <<buildVars, servingVars, exampleVars, publishVars>>
    /\ UNCHANGED <<binding, url, lastPing>>
    /\ UNCHANGED <<contStatus, contFinishedAt, clock, pollPc, pollErr, start, now, dlog>>

\* lines 80-105: the port binding (nat.NewPort("tcp", "5000") does not fail) and
\* ContainerCreate, which takes time
DeployCreate ==
    /\ deployPc = "create"
    /\ binding' = hostPort
    /\ \E d \in Delays : clock' = clock + d
    /\ \E ok \in BOOLEAN :
          IF ok
          THEN deployPc' = "startContainer" /\ contStatus' = "created" /\ deployRet' = deployRet
          ELSE deployPc' = "done" /\ contStatus' = contStatus /\ deployRet' = Failure("create")
    /\ UNCHANGED <<buildVars, servingVars, exampleVars, publishVars>>
    /\ UNCHANGED <<url, lastPing>>
    /\ UNCHANGED <<hostPort, contFinishedAt, pollPc, pollErr, start, now, dlog>>

\* lines 107-117 and 126-129: ContainerStart, then waitForContainerReady begins
DeployStart ==
    /\ deployPc = "startContainer"
    /\ \E ok \in BOOLEAN :
          IF ok
          THEN /\ deployPc' = "poll"
               /\ contStatus' = "running"
               /\ pollPc' = "check"
               /\ url' = hostPort
               /\ start' = clock
               /\ dlog' = Append(dlog, "waiting")
               /\ deployRet' = deployRet
          ELSE /\ deployPc' = "done"
               /\ deployRet' = Failure("startContainer")
               /\ UNCHANGED <<contStatus, pollPc, url, start, dlog>>
    /\ UNCHANGED <<buildVars, servingVars, exampleVars, publishVars>>
    /\ UNCHANGED <<binding, lastPing>>
    /\ UNCHANGED <<hostPort, contFinishedAt, clock, pollErr, now>>

\* lines 117-122: waitForContainerReady has returned
DeployReturn ==
    /\ deployPc = "poll"
    /\ pollPc = "returned"
    /\ deployPc' = "done"
    /\ IF pollErr = "nil"
       THEN /\ deployRet' = Deployment(hostPort)
            /\ dlog' = dlog
       ELSE /\ deployRet' = Failure(pollErr)
            /\ \E ok \in BOOLEAN : dlog' = WriteContainerLogs(dlog, ok)
    /\ UNCHANGED <<buildVars, servingVars, exampleVars, publishVars>>
    /\ UNCHANGED <<binding, url, lastPing>>
    /\ UNCHANGED <<hostPort, contStatus, contFinishedAt, clock, pollPc, pollErr, start, now>>

\* lines 158-163: the caller stops the container through the Deployment it holds
Undeploy ==
    /\ deployPc = "done"
    /\ deployRet.deployment
    /\ deployPc' = "undeployed"
    /\ \E ok \in BOOLEAN :
          IF ok /\ contStatus = "running"
          THEN contStatus' = "exited" /\ contFinishedAt' = clock
          ELSE UNCHANGED <<contStatus, contFinishedAt>>
    /\ UNCHANGED <<buildVars, servingVars, exampleVars, publishVars>>
    /\ UNCHANGED <<deployRet, hostPort, clock, pollPc, pollErr, start, now, dlog, binding, url,
                   lastPing>>

(***************************************************************************)
(* strconv.ParseFloat, on the header values of the model.  A float64 is    *)
(* kept in tenths: 1.5 is 15, -1.0 is -10.                                 *)
(***************************************************************************)
DigitValue(c) == CHOOSE n \in 0..9 : <<"0","1","2","3","4","5","6","7","8","9">>[n + 1] = c

RECURSIVE Number(_)
Number(ds) == IF ds = <<>> THEN 0 ELSE 10 * Number(SubSeq(ds, 1, Len(ds) - 1)) + DigitValue(ds[Len(ds)])

AllDigits(ds) == \A i \in 1..Len(ds) : ds[i] \in Digits

\* [val, err]: a sign, digits, and at most one digit after a point; on a syntax
\* error the value is 0 and err is set
ParseFloat(s) ==
    LET neg == s # <<>> /\ s[1] = "-"
        body == IF s # <<>> /\ s[1] \in {"-", "+"} THEN Tail(s) ELSE s
        dot == Index(body, <<".">>)
        ip == IF dot = 0 THEN body ELSE SubSeq(body, 1, dot - 1)
        fp == IF dot = 0 THEN <<>> ELSE SubSeq(body, dot + 1, Len(body))
        valid == AllDigits(ip) /\ AllDigits(fp) /\ Len(ip) + Len(fp) >= 1 /\ Len(fp) <= 1
        tenths == 10 * Number(ip) + Number(fp)
    IN  IF valid
        THEN [val |-> IF neg THEN 0 - tenths ELSE tenths, err |-> FALSE]
        ELSE [val |-> 0, err |-> TRUE]

(***************************************************************************)
(* LocalDockerDeployment.RunInference and Help                             *)
(***************************************************************************)
\* lines 227-228: -1.0
NoTime == -10

HeaderOnePointFive == <<"1",".","5">>

HeaderTwo == <<"2">>

HeaderNotANumber == <<"n","o","t","-","a","-","n","u","m","b","e","r">>

\* a header that is not there reads as ""
HeaderValues == {<<>>, HeaderOnePointFive, HeaderTwo, HeaderNotANumber}

ContentTypePng == <<"i","m","a","g","e","/","p","n","g">>

ContentTypeText == <<"t","e","x","t","/","p","l","a","i","n",";"," ","c","h","a","r","s","e","t","=","u","t","f","-","8">>

ContentTypes == {ContentTypePng, ContentTypeText}

StatusOK == 200

Statuses == {StatusOK, 500}

Responses == [status : Statuses, setup : HeaderValues, run : HeaderValues, ctype : ContentTypes]

NoResponse == [status |-> 0, setup |-> <<>>, run |-> <<>>, ctype |-> <<>>]

FieldNames == {"image", "text"}

Examples == UNION {[ks -> {"file", "string"}] : ks \in SUBSET FieldNames}

\* strings.Split(s, sep)[0]
SplitFirst(s, sep) == IF Index(s, sep) = 0 THEN s ELSE SubSeq(s, 1, Index(s, sep) - 1)

\* lines 227-242: the timing field for header value h
TimingField(h) == IF h # <<>> THEN ParseFloat(h).val ELSE NoTime

NoResult == [err |-> "none", setupTime |-> NoTime, runTime |-> NoTime, mimeType |-> <<>>]

ServingFailure(reason) == [err |-> reason, setupTime |-> NoTime, runTime |-> NoTime, mimeType |-> <<>>]

\* how lines 170-193 may end for a field of the given kind
FieldOutcomes(kind) ==
    IF kind = "file"
    THEN {"ok", "createErr", "openErr", "copyErr", "closeErr"}
    ELSE {"ok", "createErr", "writeErr"}

\* lines 169-194: one iteration of the range loop
InferField ==
    /\ srvPc = "fields"
    /\ \E k \in todo : \E out \in FieldOutcomes(example[k]) :
          /\ todo' = todo \ {k}
          /\ openedFiles' = IF out \in {"ok", "copyErr", "closeErr"} /\ example[k] = "file"
                            THEN openedFiles \cup {k} ELSE openedFiles
          /\ openFiles' = IF out = "copyErr" THEN openFiles \cup {k} ELSE openFiles
          /\ IF out = "ok"
             THEN srvPc' = srvPc /\ srvRet' = srvRet
             ELSE srvPc' = "done" /\ srvRet' = ServingFailure(out)
    /\ UNCHANGED <<buildVars, deployVars, exampleVars, publishVars>>
    /\ UNCHANGED <<example, bodyOpen, resp, slog>>

\* lines 195-204: mwriter.Close and http.NewRequest
InferEncode ==
    /\ srvPc = "fields"
    /\ todo = {}
    /\ \E ok \in BOOLEAN :
          IF ok
          THEN srvPc' = "do" /\ srvRet' = srvRet
          ELSE srvPc' = "done" /\ srvRet' = ServingFailure("mimeClose")
    /\ UNCHANGED <<buildVars, deployVars, exampleVars, publishVars>>
    /\ UNCHANGED <<example, todo, openFiles, openedFiles, bodyOpen, resp, slog>>

\* lines 206-217: httpClient.Do, and the status of the response
InferDo ==
    /\ srvPc = "do"
    /\ \/ /\ srvPc' = "done"
          /\ srvRet' = ServingFailure("post")
          /\ \E ok \in BOOLEAN : slog' = WriteContainerLogs(slog, ok)
          /\ UNCHANGED <<resp, bodyOpen>>
       \/ \E r \in Responses :
             /\ resp' = r
             /\ IF r.status # StatusOK
                THEN /\ srvPc' = "done"
                     /\ srvRet' = ServingFailure("status")
                     /\ \E ok \in BOOLEAN : slog' = WriteContainerLogs(slog, ok)
                     /\ bodyOpen' = FALSE
                ELSE /\ srvPc' = "response"
                     /\ bodyOpen' = TRUE
                     /\ UNCHANGED <<srvRet, slog>>
    /\ UNCHANGED <<buildVars, deployVars, exampleVars, publishVars>>
    /\ UNCHANGED <<example, todo, openFiles, openedFiles>>

\* lines 219-255 and the deferred resp.Body.Close: read the body, parse the headers
InferResponse ==
    /\ srvPc = "response"
    /\ srvPc' = "done"
    /\ bodyOpen' = FALSE
    /\ \E ok \in BOOLEAN :
          srvRet' = IF ok
                    THEN [err |-> "nil",
                          setupTime |-> TimingField(resp.setup),
                          runTime |-> TimingField(resp.run),
                          mimeType |-> SplitFirst(resp.ctype, <<";">>)]
                    ELSE ServingFailure("read")
    /\ UNCHANGED <<buildVars, deployVars, exampleVars, publishVars>>
    /\ UNCHANGED <<example, todo, openFiles, openedFiles, resp, slog>>

\* lines 259-269: http.Get of /help, and the status of the response
HelpGet ==
    /\ srvPc = "helpGet"
    /\ \/ /\ srvPc' = "done"
          /\ srvRet' = ServingFailure("helpGet")
          /\ \E ok \in BOOLEAN : slog' = WriteContainerLogs(slog, ok)
          /\ UNCHANGED <<resp, bodyOpen>>
       \/ \E st \in Statuses :
             /\ resp' = [NoResponse EXCEPT !.status = st]
             /\ IF st # StatusOK
                THEN /\ srvPc' = "done"
                     /\ srvRet' = ServingFailure("helpStatus")
                     /\ \E ok \in BOOLEAN : slog' = WriteContainerLogs(slog, ok)
                     /\ bodyOpen' = FALSE
                ELSE /\ srvPc' = "helpDecode"
                     /\ bodyOpen' = TRUE
                     /\ UNCHANGED <<srvRet, slog>>
    /\ UNCHANGED <<buildVars, deployVars, exampleVars, publishVars>>
    /\ UNCHANGED <<example, todo, openFiles, openedFiles>>

\* lines 271-277 and the deferred resp.Body.Close: decode the JSON body
HelpDecode ==
    /\ srvPc = "helpDecode"
    /\ srvPc' = "done"
    /\ bodyOpen' = FALSE
    /\ \E ok \in BOOLEAN :
          IF ok
          THEN srvRet' = [NoResult EXCEPT !.err = "nil"] /\ slog' = slog
          ELSE /\ srvRet' = ServingFailure("decode")
               /\ \E logged \in BOOLEAN : slog' = WriteContainerLogs(slog, logged)
    /\ UNCHANGED <<buildVars, deployVars, exampleVars, publishVars>>
    /\ UNCHANGED <<example, todo, openFiles, openedFiles, resp>>

(***************************************************************************)
(* filepath.Join, on sequences of characters (separator "/").              *)
(***************************************************************************)
Slash == <<"/">>

\* strings.Split(s, "/")
RECURSIVE SplitAll(_)
SplitAll(s) ==
    IF Index(s, Slash) = 0 THEN <<s>>
    ELSE <<SubSeq(s, 1, Index(s, Slash) - 1)>> \o SplitAll(SubSeq(s, Index(s, Slash) + 1, Len(s)))

\* the path elements left of the elements es, on top of the elements kept so far
RECURSIVE CleanElems(_, _, _)
CleanElems(es, kept, rooted) ==
    IF es = <<>> THEN kept
    ELSE LET el == Head(es)
             rest == Tail(es)
         IN  IF el = <<>> \/ el = <<".">>
             THEN CleanElems(rest, kept, rooted)
             ELSE IF el = <<".", ".">>
             THEN IF kept # <<>> /\ kept[Len(kept)] # <<".", ".">>
                  THEN CleanElems(rest, SubSeq(kept, 1, Len(kept) - 1), rooted)
                  ELSE IF rooted
                  THEN CleanElems(rest, kept, rooted)
                  ELSE CleanElems(rest, Append(kept, el), rooted)
             ELSE CleanElems(rest, Append(kept, el), rooted)

RECURSIVE JoinElems(_)
JoinElems(es) ==
    IF es = <<>> THEN <<>>
    ELSE IF Len(es) = 1 THEN es[1]
    ELSE es[1] \o Slash \o JoinElems(Tail(es))

\* filepath.Clean
Clean(path) ==
    LET rooted == path # <<>> /\ path[1] = "/"
        kept == CleanElems(SplitAll(path), <<>>, rooted)
    IN  IF rooted THEN Slash \o JoinElems(kept)
        ELSE IF kept = <<>> THEN <<".">>
        ELSE JoinElems(kept)

\* filepath.Join(a, b): the non-empty elements, joined and cleaned; "" if none
Join(a, b) ==
    IF a = <<>> /\ b = <<>> THEN <<>>
    ELSE IF a = <<>> THEN Clean(b)
    ELSE IF b = <<>> THEN Clean(a)
    ELSE Clean(a \o Slash \o b)

(***************************************************************************)
(* NewExample and NewExampleWithBaseDir                                    *)
(***************************************************************************)
\* a *string: nil, or a pointer to v
Nil == <<>>

Ptr(v) == <<v>>

FilePrefix == <<"@">>

IsFileRefAnywhere(val) == Contains(val, FilePrefix)

\* lines 217 and 231: strings.HasPrefix(val, "@")
IsFileRef(val) == HasPrefix(val, FilePrefix)

\* lines 217-222: the ExampleValue of NewExample for val
NewValue(val) ==
    IF IsFileRef(val)
    THEN [String |-> Nil, File |-> Ptr(Tail(val))]
    ELSE [String |-> Ptr(val), File |-> Nil]

\* lines 231-236: the ExampleValue of NewExampleWithBaseDir for val
NewValueWithBaseDir(val, dir) ==
    IF IsFileRef(val)
    THEN [String |-> Nil, File |-> Ptr(Join(dir, Tail(val)))]
    ELSE [String |-> Ptr(val), File |-> Nil]

ValueTmpX == <<"@","/","t","m","p","/","x">>

ValuePlainFile == <<"@","x",".","p","n","g">>

ValueParentFile == <<"@",".",".","/","x">>

ValueInline == <<"h","i">>

ValueAtInside == <<"a","@","b">>

ExampleInputs == {ValueTmpX, ValuePlainFile, ValueParentFile, FilePrefix, <<>>, ValueInline,
                  ValueAtInside}

ExampleKeys == {"input", "mask"}

KeyValMaps == UNION {[ks -> ExampleInputs] : ks \in SUBSET ExampleKeys}

BaseDirData == <<"/","d","a","t","a">>

BaseDirRelative == <<"i","n","/">>

BaseDirs == {<<>>, BaseDirData, BaseDirRelative}

NoValues == [k \in {} |-> [String |-> Nil, File |-> Nil]]

\* lines 213-225
NewExample ==
    /\ exPc = "new"
    /\ exValues' = [k \in DOMAIN keyVals |-> NewValue(keyVals[k])]
    /\ exPc' = "done"
    /\ UNCHANGED <<buildVars, deployVars, servingVars, publishVars>>
    /\ UNCHANGED <<keyVals, baseDir>>

\* lines 227-239
NewExampleWithBaseDir ==
    /\ exPc = "newWithBaseDir"
    /\ exValues' = [k \in DOMAIN keyVals |-> NewValueWithBaseDir(keyVals[k], baseDir)]
    /\ exPc' = "done"
    /\ UNCHANGED <<buildVars, deployVars, servingVars, publishVars>>
    /\ UNCHANGED <<keyVals, baseDir>>

(***************************************************************************)
(* NewLocalImageBuilder and LocalImageBuilder.BuildAndPush                  *)
(***************************************************************************)
\* line 17
noRegistry == <<"n","o","_","r","e","g","i","s","t","r","y">>

RegistryRemote == <<"r","8",".","i","m">>

RegistryArgs == {<<>>, RegistryRemote}

\* the argument name of BuildAndPush
ImageName == <<"m">>

PushingPrefix == <<"P","u","s","h","i","n","g"," ">>

ToRegistry == <<" ","t","o"," ","r","e","g","i","s","t","r","y">>

\* line 35: fmt.Sprintf("%s/%s:%s", b.registry, name, tag)
FullImageTag(reg, name, tag) == reg \o <<"/">> \o name \o <<":">> \o tag

NoPublish == [fullImageTag |-> <<>>, err |-> "none"]

\* the outcomes of tag(): cmd.Output succeeds, fails with an *exec.ExitError, or
\* fails with another error, on which the type assertion of line 90 panics
TagOutcomes == {"ok", "exitError", "otherError"}

\* the outcomes of push(): the command succeeds, StderrPipe or Run fails, or a
\* line of its stderr makes pipeToWithDockerChecks call console.Fatal
PushOutcomes == {"ok", "err", "fatal"}

\* lines 23-28
NewLocalImageBuilder ==
    /\ bapPc = "new"
    /\ \E r \in RegistryArgs :
          /\ registryArg' = r
          /\ registry' = IF r = <<>> THEN noRegistry ELSE r
    /\ bapPc' = "call"
    /\ UNCHANGED <<buildVars, deployVars, servingVars, exampleVars>>
    /\ UNCHANGED <<fullImageTag, bapSteps, bapRet>>

\* line 31: BuildAndPush calls build
BuildAndPush ==
    /\ bapPc = "call"
    /\ buildPc = "idle"
    /\ buildPc' = "buildPipe"
    /\ bapPc' = "build"
    /\ UNCHANGED <<deployVars, servingVars, exampleVars>>
    /\ UNCHANGED <<buildRet, lastLogs, stream, nWritten, procState, pipe, writeClosed,
                   readClosed, scanPc, scanBuf, line, currentSection, currentLogLines,
                   tagOut, tagSends, log>>
    /\ UNCHANGED <<registryArg, registry, fullImageTag, bapSteps, bapRet>>

\* lines 31-35: build has returned
BuildReturned ==
    /\ bapPc = "build"
    /\ buildPc = "done"
    /\ IF buildRet.err # "nil"
       THEN /\ bapSteps' = Append(bapSteps, [step |-> "build", ok |-> FALSE])
            /\ bapRet' = [fullImageTag |-> <<>>, err |-> "build"]
            /\ bapPc' = "done"
            /\ UNCHANGED fullImageTag
       ELSE /\ bapSteps' = Append(bapSteps, [step |-> "build", ok |-> TRUE])
            /\ fullImageTag' = FullImageTag(registry, ImageName, buildRet.tag)
            /\ bapPc' = "tag"
            /\ UNCHANGED bapRet
    /\ UNCHANGED <<buildVars, deployVars, servingVars, exampleVars>>
    /\ UNCHANGED <<registryArg, registry>>

\* lines 36-39 and 44, with tag(), lines 84-95
TagImage ==
    /\ bapPc = "tag"
    /\ \E out \in TagOutcomes :
          /\ bapSteps' = Append(bapSteps, [step |-> "tag", ok |-> out = "ok"])
          /\ IF out = "otherError"
             THEN /\ bapPc' = "panic"
                  /\ UNCHANGED bapRet
             ELSE IF out = "exitError"
             THEN /\ bapPc' = "done"
                  /\ bapRet' = [fullImageTag |-> <<>>, err |-> "tag"]
             ELSE IF registry # noRegistry
             THEN /\ bapPc' = "push"
                  /\ UNCHANGED bapRet
             ELSE /\ bapPc' = "done"
                  /\ bapRet' = [fullImageTag |-> fullImageTag, err |-> "nil"]
    /\ UNCHANGED <<buildVars, deployVars, servingVars, exampleVars>>
    /\ UNCHANGED <<registryArg, registry, fullImageTag>>

\* lines 40-44, with push(), lines 97-116, and pipeToWithDockerChecks
PushImage ==
    /\ bapPc = "push"
    /\ log' = Append(log, Info(PushingPrefix \o fullImageTag \o ToRegistry))
    /\ \E out \in PushOutcomes :
          /\ bapSteps' = Append(bapSteps, [step |-> "push", ok |-> out = "ok"])
          /\ IF out = "fatal"
             THEN /\ bapPc' = "fatal"
                  /\ UNCHANGED bapRet
             ELSE IF out = "err"
             THEN /\ bapPc' = "done"
                  /\ bapRet' = [fullImageTag |-> <<>>, err |-> "push"]
             ELSE /\ bapPc' = "done"
                  /\ bapRet' = [fullImageTag |-> fullImageTag, err |-> "nil"]
    /\ UNCHANGED <<deployVars, servingVars, exampleVars>>
    /\ UNCHANGED <<buildPc, buildRet, lastLogs, stream, nWritten, procState, pipe,
                   writeClosed, readClosed, scanPc, scanBuf, line, currentSection,
                   currentLogLines, tagOut, tagSends>>
    /\ UNCHANGED <<registryArg, registry, fullImageTag>>

(***************************************************************************)
(* The specification: one call of one operation.                           *)
(***************************************************************************)
BuildStart(pc) ==
    /\ buildPc = pc
    /\ buildRet = [tag |-> NoTag, err |-> "none"]
    /\ lastLogs = <<>>
    /\ nWritten = 0
    /\ procState = "notStarted"
    /\ pipe = <<>>
    /\ writeClosed = FALSE
    /\ readClosed = FALSE
    /\ scanPc = "notStarted"
    /\ scanBuf = <<>>
    /\ line = <<>>
    /\ currentSection = SectionStartingBuild
    /\ currentLogLines = <<>>
    /\ tagOut = NoTag
    /\ tagSends = 0
    /\ log = <<>>

DeployBegin(pc) ==
    /\ deployPc = pc
    /\ deployRet = NoDeployment
    /\ hostPort = 0
    /\ contStatus = "none"
    /\ contFinishedAt = -1
    /\ clock = 0
    /\ pollPc = "idle"
    /\ pollErr = "none"
    /\ start = 0
    /\ now = 0
    /\ dlog = <<>>
    /\ binding = 0
    /\ url = 0
    /\ lastPing = "none"

ServingBegin(pc) ==
    /\ srvPc = pc
    /\ todo = DOMAIN example
    /\ openFiles = {}
    /\ openedFiles = {}
    /\ bodyOpen = FALSE
    /\ resp = NoResponse
    /\ srvRet = NoResult
    /\ slog = <<>>

NoExample == [k \in {} |-> "string"]

NoKeyVals == [k \in {} |-> <<>>]

ExampleIdle == exPc = "idle" /\ keyVals = NoKeyVals /\ baseDir = <<>> /\ exValues = NoValues

PublishBegin(pc) ==
    /\ bapPc = pc
    /\ registryArg = <<>>
    /\ registry = <<>>
    /\ fullImageTag = <<>>
    /\ bapSteps = <<>>
    /\ bapRet = NoPublish

BuildInit ==
    /\ BuildStart("idle") /\ stream \in Streams
    /\ PublishBegin("new")
    /\ DeployBegin("idle")
    /\ example = NoExample /\ ServingBegin("idle")
    /\ ExampleIdle

DeployInit ==
    /\ BuildStart("idle") /\ stream = <<>>
    /\ DeployBegin("artifact")
    /\ example = NoExample /\ ServingBegin("idle")
    /\ ExampleIdle
    /\ PublishBegin("idle")

InferInit ==
    /\ BuildStart("idle") /\ stream = <<>>
    /\ DeployBegin("idle")
    /\ example \in Examples /\ ServingBegin("fields")
    /\ ExampleIdle
    /\ PublishBegin("idle")

HelpInit ==
    /\ BuildStart("idle") /\ stream = <<>>
    /\ DeployBegin("idle")
    /\ example = NoExample /\ ServingBegin("helpGet")
    /\ ExampleIdle
    /\ PublishBegin("idle")

NewExampleInit ==
    /\ BuildStart("idle") /\ stream = <<>>
    /\ DeployBegin("idle")
    /\ example = NoExample /\ ServingBegin("idle")
    /\ exPc = "new" /\ keyVals \in KeyValMaps /\ baseDir = <<>> /\ exValues = NoValues
    /\ PublishBegin("idle")

NewExampleWithBaseDirInit ==
    /\ BuildStart("idle") /\ stream = <<>>
    /\ DeployBegin("idle")
    /\ example = NoExample /\ ServingBegin("idle")
    /\ exPc = "newWithBaseDir" /\ keyVals \in KeyValMaps /\ baseDir \in BaseDirs
    /\ exValues = NoValues
    /\ PublishBegin("idle")

Init ==
    \/ BuildInit
    \/ DeployInit
    \/ InferInit
    \/ HelpInit
    \/ NewExampleInit
    \/ NewExampleWithBaseDirInit

BuildNext ==
    \/ BuildPipe
    \/ CmdStart
    \/ CmdWait
    \/ RecvLastLogs
    \/ LogLastLogs
    \/ RecvTag
    \/ ProcWrite
    \/ ProcExit
    \/ ScanRead
    \/ ScanLine
    \/ ScanEnd

DeployNext ==
    \/ DeployArtifact
    \/ DeployImage
    \/ DeployPort
    \/ DeployCreate
    \/ DeployStart
    \/ DeployReturn
    \/ PollCheck
    \/ PollSleep
    \/ PollInspect
    \/ PollPing
    \/ ContainerExit
    \/ Undeploy

ServingNext ==
    \/ InferField
    \/ InferEncode
    \/ InferDo
    \/ InferResponse
    \/ HelpGet
    \/ HelpDecode

ExampleNext == NewExample \/ NewExampleWithBaseDir

PublishNext ==
    \/ NewLocalImageBuilder
    \/ BuildAndPush
    \/ BuildReturned
    \/ TagImage
    \/ PushImage

Next == BuildNext \/ DeployNext \/ ServingNext \/ ExampleNext \/ PublishNext

Spec == Init /\ [][Next]_vars

\* Deploy alone, where every call of the poll loop returns: the loop takes its
\* next step, and Deploy takes the result when the loop has returned
PollFairness ==
    /\ WF_vars(PollCheck)
    /\ WF_vars(PollSleep)
    /\ WF_vars(PollInspect)
    /\ WF_vars(PollPing)
    /\ WF_vars(DeployReturn)

DeploySpec == DeployInit /\ [][DeployNext]_vars /\ PollFairness

(***************************************************************************)
(* Properties.                                                             *)
(***************************************************************************)
\* the lines scanner.Scan() has returned so far: logWriter.Debug gets each of them
Scanned ==
    LET d == SelectSeq(log, LAMBDA e : e.lvl = "debug")
    IN  [i \in 1..Len(d) |-> d[i].msg]

IsSuccessLine(l) == IsLegacySuccess(l) \/ IsBuildkitSuccess(l)

NoSuccessLine(s) == \A i \in 1..Len(s) : ~IsSuccessLine(s[i])

ProcExited == procState \in {"exitedOk", "exitedFail"}

ContainerGone == contStatus \in {"exited", "dead"}

\* C1: when the process has exited (with failure or cleanly) and no line of its
\* output matched a success pattern, build() is not blocked for ever: until it
\* has returned, some step of the build can still be taken.
C1_BuildReturnsWithoutTag ==
    (ProcExited /\ NoSuccessLine(stream) /\ buildPc # "done") => ENABLED Next

\* C2: when the process has exited with failure, whatever its output was, build()
\* is not blocked before it has returned, and it returns the failure after
\* logging the lines of the trailing log window it received, in order.
C2_FailureWindowForwarded ==
    procState = "exitedFail" =>
        /\ buildPc # "done" => ENABLED Next
        /\ buildPc = "done" =>
              /\ buildRet = [tag |-> NoTag, err |-> "exit"]
              /\ Len(log) >= Len(lastLogs)
              /\ SubSeq(log, Len(log) - Len(lastLogs) + 1, Len(log)) = InfoAll(lastLogs)

\* C3: in one run the goroutine begins at most one send on the tag channel,
\* whatever the stream, also when several of its lines match a success pattern.
C3_TagSentOnce == tagSends <= 1

\* C4: in every run in which the goroutine was started, when nothing more can
\* happen the trailing log window has been handed over and the goroutine has
\* ended: it is not left blocked on a channel.
C4_ScannerTerminates == (scanPc # "notStarted" /\ ~ENABLED Next) => scanPc = "done"

\* C5: while the build process runs, the goroutine is never stalled in a send on
\* the tag channel, waiting for build() to come back from cmd.Wait.
C5_ScannerNeverStalled ==
    procState = "running" => scanPc \notin {"sendTagLegacy", "sendTagBuildkit"}

\* the lines after the last section marker of s; none of them is a marker
WindowOf(s) ==
    LET markers == {i \in 1..Len(s) : IsSectionLine(s[i])}
        last == IF markers = {} THEN 0 ELSE CHOOSE i \in markers : \A j \in markers : j <= i
    IN  SubSeq(s, last + 1, Len(s))

\* C6: the trailing log window the goroutine delivers at the end of the stream,
\* and the one build() receives, is exactly the sequence of the lines that
\* arrived after the last section marker, in order, without the marker;
\* success lines that are no markers are among them.
C6_TrailingWindow ==
    /\ scanPc \in {"sendLogs", "done"} => currentLogLines = WindowOf(Scanned)
    /\ buildPc = "logLines" => lastLogs = WindowOf(Scanned)
    /\ \A i \in 1..Len(currentLogLines) : ~IsSectionLine(currentLogLines[i])

\* the stream of the specification's scenario has been scanned to its end
C6_Witness ==
    /\ scanPc = "sendLogs"
    /\ Scanned = <<LineSection, LinePlain, LineLegacy>>
    /\ currentLogLines = <<LinePlain, LineLegacy>>

\* t is what is left of l after successPrefix, without the white space around it
IsTrimmedRemainder(l, t) ==
    LET r == SubSeq(l, Len(successPrefix) + 1, Len(l))
    IN  /\ SubSeq(l, 1, Len(successPrefix)) = successPrefix
        /\ t # <<>> => t[1] \notin WhiteSpace /\ t[Len(t)] \notin WhiteSpace
        /\ \E a \in 0..Len(r) :
              /\ a + Len(t) <= Len(r)
              /\ SubSeq(r, a + 1, a + Len(t)) = t
              /\ \A k \in 1..Len(r) : (k <= a \/ k > a + Len(t)) => r[k] \in WhiteSpace

C8_ExitedNotTimeout ==
    [][(pollPc # "returned" /\ pollPc' = "returned" /\ pollErr' = "timeout")
          => ~(ContainerGone /\ contFinishedAt - start <= StartupTimeout)]_vars

C10_FailureLogsContainer ==
    (deployPc = "done" /\ deployRet.err # "nil" /\ contStatus # "none")
        => \E i \in 1..Len(dlog) : dlog[i] \in {"containerLogs", "logsError"}

\* C11: when RunInference has returned a Result, a timing field whose header is
\* absent is -1, one whose header parses has the parsed value (1.5 and 2 here),
\* and one whose header does not parse as a float is -1 as well.
C11_TimingSentinel ==
    (srvPc = "done" /\ srvRet.err = "nil") =>
        \A f \in {<<resp.setup, srvRet.setupTime>>, <<resp.run, srvRet.runTime>>} :
            /\ f[1] = <<>> => f[2] = -10
            /\ f[1] = HeaderOnePointFive => f[2] = 15
            /\ f[1] = HeaderTwo => f[2] = 20
            /\ f[1] = HeaderNotANumber => f[2] = -10

\* C12: when RunInference has returned, on whatever path, no file it opened is
\* still open.
C12_FilesClosed == srvPc = "done" => openFiles = {}

\* C13: when RunInference or Help has returned a failure of the transport (the
\* read of the response body included), of the status or of the JSON decoding,
\* the logger has received the container's log or the error of fetching it.
C13_FailureLogsContainer ==
    (srvPc = "done" /\ srvRet.err \in {"post", "status", "read", "helpGet", "helpStatus", "decode"})
        => /\ Len(slog) = 1
           /\ slog[1] \in {"containerLogs", "logsError"}

\* the path dir/name, for a name without "/" or "."-elements and a clean dir
PlainJoin(dir, name) == IF dir = <<>> THEN name ELSE dir \o Slash \o name

\* C14: every field of the result has exactly one of String and File set: a value
\* that begins with "@" gives a File whose path is the value without the "@"
\* (joined to the base directory by NewExampleWithBaseDir), any other value gives
\* a String equal to the value; the result has the fields of the input.
C14_ExampleValues ==
    exPc = "done" =>
        /\ DOMAIN exValues = DOMAIN keyVals
        /\ \A k \in DOMAIN keyVals :
              LET val == keyVals[k]
                  out == exValues[k]
                  isFile == val # <<>> /\ val[1] = "@"
                  path == SubSeq(val, 2, Len(val))
              IN  /\ (out.String = Nil) # (out.File = Nil)
                  /\ ~isFile => out.String = <<val>>
                  /\ isFile => Len(out.File) = 1
                  /\ (isFile /\ baseDir = <<>> /\ val # ValueParentFile /\ val # FilePrefix)
                        => out.File[1] = path
                  /\ (isFile /\ val = ValuePlainFile /\ baseDir = BaseDirData)
                        => out.File[1] = PlainJoin(baseDir, path)
                  /\ (isFile /\ val = ValueTmpX /\ baseDir = BaseDirData)
                        => out.File[1] = BaseDirData \o path

\* the round trip of the specification, beside an inline value with an "@" inside
C14_Witness ==
    /\ exPc = "done"
    /\ baseDir = BaseDirData
    /\ keyVals = [input |-> ValueTmpX, mask |-> ValueAtInside]
    /\ exValues["input"] = [String |-> Nil, File |-> <<BaseDirData \o <<"/","t","m","p","/","x">> >>]
    /\ exValues["mask"] = [String |-> <<ValueAtInside>>, File |-> Nil]

\* C15: when the process has exited cleanly and a line of its output matched a
\* success pattern, build() is not blocked in the receive of the tag: until it
\* has returned some step can be taken, and what it returns is a tag with no error.
C15_TagReceivedAfterExit ==
    (procState = "exitedOk" /\ ~NoSuccessLine(stream)) =>
        /\ buildPc # "done" => ENABLED Next
        /\ buildPc = "done" => (buildRet.err = "nil" /\ buildRet.tag # NoTag)

StepNames == [i \in 1..Len(bapSteps) |-> bapSteps[i].step]

\* C16: the steps of BuildAndPush end in the order build, tag, push; tag is run
\* only after build returned a tag, push only after tag succeeded and only with a
\* registry other than "no_registry"; a step that fails is the last step and is
\* followed by the return of an empty tag with that step's error; a successful
\* call returns registry/name:tag, the registry being "no_registry" when
\* NewLocalImageBuilder was given none.
C16_BuildTagPush ==
    /\ StepNames \in {<<>>, <<"build">>, <<"build", "tag">>, <<"build", "tag", "push">>}
    /\ Len(bapSteps) >= 2 => (bapSteps[1].ok /\ buildRet.err = "nil" /\ buildRet.tag # NoTag)
    /\ Len(bapSteps) = 3 => (bapSteps[2].ok /\ registry # noRegistry)
    /\ \A i \in 1..Len(bapSteps) :
          ~bapSteps[i].ok =>
              /\ i = Len(bapSteps)
              /\ bapPc = "done"
              /\ bapRet = [fullImageTag |-> <<>>, err |-> bapSteps[i].step]
    /\ (bapPc = "done" /\ bapRet.err = "nil") =>
          /\ StepNames = IF registryArg = <<>> THEN <<"build", "tag">>
                         ELSE <<"build", "tag", "push">>
          /\ \A i \in 1..Len(bapSteps) : bapSteps[i].ok
          /\ registry = (IF registryArg = <<>> THEN noRegistry ELSE registryArg)
          /\ bapRet.fullImageTag = registry \o <<"/">> \o ImageName \o <<":">> \o buildRet.tag

\* the state of the deployment, as the container and the call show it
Lifecycle ==
    IF deployPc \in {"done", "undeployed"}
    THEN IF deployRet.deployment THEN "Ready" ELSE "Failed"
    ELSE IF contStatus = "none" THEN "NotStarted"
    ELSE IF contStatus = "created" THEN "Created"
    ELSE "Starting"

LifecycleOrder ==
    {<<"NotStarted", "Created">>, <<"Created", "Starting">>, <<"Starting", "Ready">>,
     <<"NotStarted", "Failed">>, <<"Created", "Failed">>, <<"Starting", "Failed">>}

\* C17: Deploy goes from NotStarted to Created to Starting to Ready or Failed and
\* no other way; the host port is allocated while nothing is created, is the port
\* bound at ContainerCreate and pinged by the poll, and does not change; a
\* Deployment is returned only for a started container after a ping of that port
\* answered 200, and it holds that port; every other return is a failure without
\* a Deployment.
C17_DeployLifecycle ==
    /\ [][Lifecycle' # Lifecycle => <<Lifecycle, Lifecycle'>> \in LifecycleOrder]_vars
    /\ [][hostPort' # hostPort => (hostPort = 0 /\ contStatus = "none" /\ contStatus' = "none")]_vars
    /\ [](contStatus # "none" => (hostPort \in Ports /\ binding = hostPort))
    /\ [](Lifecycle = "Starting" => url = hostPort)
    /\ [](deployRet.deployment =>
             /\ deployRet.port = hostPort
             /\ binding = hostPort
             /\ url = hostPort
             /\ lastPing = "ok"
             /\ pollErr = "nil"
             /\ dlog[Len(dlog)] = "gotPing"
             /\ contStatus \notin {"none", "created"})
    /\ []((deployPc = "done" /\ ~deployRet.deployment) =>
             (deployRet.port = 0 /\ deployRet.err \notin {"nil", "none"}))

\* Deploy has returned a Deployment on the second port, after a poll that took time
C17_Witness ==
    /\ deployPc = "done"
    /\ deployRet = Deployment(BasePort + 1)
    /\ now > start

\* C18: a ping that fails or is answered with another status than 200 sends the
\* loop to its next iteration and returns nothing; what the poll returns is nil
\* (only after a 200), the exit of the container, the inspect failure or the
\* timeout; and where every call returns, a poll that has begun returns.
C18_PollOutcomes ==
    /\ [][(pollPc = "ping" /\ pollPc' # "ping" /\ lastPing' # "ok")
             => (pollPc' = "check" /\ pollErr' = "none" /\ deployPc' = "poll")]_vars
    /\ [](pollPc = "returned" => pollErr \in {"nil", "exited", "inspect", "timeout"})
    /\ [](pollErr = "nil" => lastPing = "ok")
    /\ (pollPc = "check") ~> (pollPc = "returned")

\* after a ping with another status the loop went on, up to the timeout
C18_Witness ==
    /\ pollPc = "returned"
    /\ pollErr = "timeout"
    /\ lastPing = "non200"
    /\ contStatus = "running"

\* C19: when Deploy has returned the failure of the readiness poll, the container
\* it started is not running any more.
C19_FailedDeployStopsContainer ==
    (deployPc = "done" /\ ~deployRet.deployment /\ pollPc = "returned")
        => contStatus # "running"

====
